---- MODULE Spec2Model ----
(***************************************************************************)
(* UVCP (Unified Voice Cloning Package) writers and reader.                *)
(*                                                                         *)
(*   tabs/utilities/uvcp/uvcp.py                  multi-model, zstandard   *)
(*   tabs/utilities/uvcp/uvcp-lz4-compression.py  single-model, lz4 and    *)
(*                                                the reader load_uvcp_fast*)
(*   tabs/utilities/uvcp/uvcp-gzip-compression.py single-model, gzip       *)
(*                                                                         *)
(* A path is a record [dir, stem, ext]: the directory part, the file stem  *)
(* (Path(p).stem) and the extension.  The content of a source file is      *)
(* identified with the path it is stored at.  An archive on disk is a      *)
(* sequence of cells: a compression header, one cell per stored field and  *)
(* a closing cell written last.                                            *)
(***************************************************************************)
EXTENDS Integers, Sequences, FiniteSets, TLC

\* ------------------------------------------------------------------ bounds
MaxModels == 2
MaxIndexes == 2

\* ------------------------------------------------------------- name spaces
\* Stems and directories in ascending string order.
StemOrder == <<"a_model", "b_model">>
DirOrder == <<"gone", "junk", "up1", "up2">>

Stems == {StemOrder[i] : i \in DOMAIN StemOrder}
GoodDirs == {"up1", "up2"}

Rank(order, x) == CHOOSE i \in DOMAIN order : order[i] = x

PthPaths ==
  {[dir |-> d, stem |-> s, ext |-> "pth"] : d \in GoodDirs \cup {"gone"}, s \in Stems}
    \cup {[dir |-> "junk", stem |-> "a_model", ext |-> "pth"]}

IndexPaths ==
  {[dir |-> d, stem |-> s, ext |-> "index"] : d \in GoodDirs, s \in Stems}
    \cup {[dir |-> d, stem |-> "a_model", ext |-> "index"] : d \in {"gone", "junk"}}

SrcPaths == PthPaths \cup IndexPaths

NoPath == [dir |-> "", stem |-> "", ext |-> "none"]
NoData == [dir |-> "", stem |-> "", ext |-> "nodata"]
CorruptBuffer == [dir |-> "", stem |-> "", ext |-> "corrupt"]

OutPath == [dir |-> "out", stem |-> "pack", ext |-> "uvcp"]
LogsDir == "logs"
DefaultPaths ==
  {[dir |-> LogsDir, stem |-> s, ext |-> e] : s \in Stems, e \in {"uvcp", "_multi.uvcp"}}
DestPaths == {OutPath} \cup DefaultPaths

Algs == {"zstd", "lz4", "gzip"}
Procs == {1, 2}

SeqsUpTo(S, n) == UNION {[1..k -> S] : k \in 0..n}

VARIABLES src, dirs, disk, disk0, pc, args, uvcp_data, final_output_path,
          pos, result, probed, loaded

vars == <<src, dirs, disk, disk0, pc, args, uvcp_data, final_output_path,
          pos, result, probed, loaded>>

\* ---------------------------------------------------------- path functions
\* Path(p).stem
Stem(p) == p.stem

\* Path(p).parent
Parent(p) == p.dir

\* str.__lt__ on the full path strings "/<dir>/<stem>.<ext>" of one extension.
PathLess(p, q) ==
  \/ Rank(DirOrder, p.dir) < Rank(DirOrder, q.dir)
  \/ /\ p.dir = q.dir
     /\ Rank(StemOrder, p.stem) < Rank(StemOrder, q.stem)

\* Path(p).exists()
Exists(p) == src[p] # "absent"

RECURSIVE Insert(_, _)
Insert(s, x) ==
  IF s = <<>> THEN <<x>>
  ELSE IF PathLess(x, Head(s)) THEN <<x>> \o s
  ELSE <<Head(s)>> \o Insert(Tail(s), x)

\* sorted(list of path strings)
RECURSIVE sorted(_)
sorted(s) == IF s = <<>> THEN <<>> ELSE Insert(sorted(SubSeq(s, 1, Len(s) - 1)), s[Len(s)])

\* ------------------------------------------------------------ source files
\* torch.load(pth_path, map_location="cpu", weights_only=True)
TorchLoad(pth_path) == pth_path

\* faiss.serialize_index(faiss.read_index(index_path))
SerializeIndex(index_path) == index_path

\* faiss.read_index(reader) on a serialized buffer: does it deserialize?
Deserializable(index_buffer) == index_buffer # CorruptBuffer

\* --------------------------------------------------------- container codec
Entry(model_state, index_data) == [model_state |-> model_state, index_data |-> index_data]

Single(entry) == [form |-> "single", entries |-> <<entry>>]
Multi(models_data) == [form |-> "multi", entries |-> models_data]

Cell(alg, tag, id, data, n) == [alg |-> alg, tag |-> tag, id |-> id, data |-> data, n |-> n]

Hole == Cell("", "hole", -1, NoData, 0)

\* The fields of one entry: model_state, then index_data when present.
EntryCells(alg, id, entry) ==
  <<Cell(alg, "model_state", id, entry.model_state, 0)>>
    \o (IF entry.index_data = NoData THEN <<>>
        ELSE <<Cell(alg, "index_data", id, entry.index_data, 0)>>)

RECURSIVE ModelsCells(_, _, _)
ModelsCells(alg, entries, i) ==
  IF i > Len(entries) THEN <<>>
  ELSE EntryCells(alg, i - 1, entries[i]) \o ModelsCells(alg, entries, i + 1)

\* torch.save(uvcp_data, f) through <alg>.open(final_output_path, 'wb'):
\* the stream header, the document and the closing record with the length.
Serialize(alg, data) ==
  LET body == IF data.form = "multi"
              THEN <<Cell(alg, "models", -1, NoData, 0)>> \o ModelsCells(alg, data.entries, 1)
              ELSE EntryCells(alg, -1, data.entries[1])
  IN <<Cell(alg, "hdr", -1, NoData, 0)>> \o body
       \o <<Cell(alg, "end", -1, NoData, Len(body) + 2)>>

\* <alg>.open(path, 'rb') then read: the stream is one complete frame of alg.
Decompressible(alg, bytes) ==
  /\ Len(bytes) >= 2
  /\ \A i \in DOMAIN bytes : bytes[i].alg = alg
  /\ bytes[1].tag = "hdr"
  /\ bytes[Len(bytes)].tag = "end"
  /\ bytes[Len(bytes)].n = Len(bytes)
  /\ \A i \in 2..(Len(bytes) - 1) : bytes[i].tag \in {"models", "model_state", "index_data"}

\* The value a top-level key of the stored dictionary maps to (NoData: no key).
TopLevel(bytes, key) ==
  IF \E i \in DOMAIN bytes : bytes[i].tag = key /\ bytes[i].id = -1
  THEN LET i == CHOOSE i \in DOMAIN bytes : bytes[i].tag = key /\ bytes[i].id = -1
       IN bytes[i].data
  ELSE NoData

HasKey(bytes, key) == \E i \in DOMAIN bytes : bytes[i].tag = key /\ bytes[i].id = -1

\* The speaker ids under the "models" key, and an entry's fields.
SpeakerIds(bytes) == {bytes[i].id : i \in {j \in DOMAIN bytes : bytes[j].tag = "model_state"}} \ {-1}

Field(bytes, id, key) ==
  IF \E i \in DOMAIN bytes : bytes[i].tag = key /\ bytes[i].id = id
  THEN LET i == CHOOSE i \in DOMAIN bytes : bytes[i].tag = key /\ bytes[i].id = id
       IN bytes[i].data
  ELSE NoData

\* torch.load of a decompressed stream: the document the bytes hold.
Decode(bytes) ==
  IF HasKey(bytes, "models")
  THEN Multi([i \in 1..Cardinality(SpeakerIds(bytes)) |->
                Entry(Field(bytes, i - 1, "model_state"), Field(bytes, i - 1, "index_data"))])
  ELSE Single(Entry(TopLevel(bytes, "model_state"), TopLevel(bytes, "index_data")))

\* A file holds a complete archive: some algorithm decompresses it and the
\* document it decodes to serializes to exactly these bytes.
IsCompleteArchive(bytes) ==
  \E alg \in Algs : Decompressible(alg, bytes) /\ Serialize(alg, Decode(bytes)) = bytes

\* -------------------------------------------------------------- disk files
Absent == [exists |-> FALSE, bytes |-> <<>>]
File(bytes) == [exists |-> TRUE, bytes |-> bytes]

\* An archive that was on disk before any pack ran: lz4, single form, with an
\* index buffer this build of faiss cannot deserialize.
ForeignWeights == [dir |-> "ext", stem |-> "a_model", ext |-> "pth"]
ForeignArchive == Serialize("lz4", Single(Entry(ForeignWeights, CorruptBuffer)))

\* The directories that hold a file of the given disk.
DirsOf(d) == {Parent(f) : f \in {g \in DOMAIN d : d[g].exists}}

\* ----------------------------------------------------------------- results
Result(tag, path, n) == [tag |-> tag, path |-> path, n |-> n]
NoResult == Result("none", NoPath, 0)

\* ------------------------------------------------- create_uvcp, multi-model
\* The dictionary as a first-wins rule would build it: an earlier path of a
\* stem is kept.
IndexPathsDictFirstWins(index_paths) ==
  [s \in {Stem(index_paths[k]) : k \in DOMAIN index_paths} |->
     LET first == CHOOSE k \in DOMAIN index_paths :
                    /\ Stem(index_paths[k]) = s
                    /\ \A j \in DOMAIN index_paths : Stem(index_paths[j]) = s => k <= j
     IN index_paths[first]]

\* {Path(p).stem: p for p in index_paths}: a later path replaces an earlier
\* one of the same stem.
IndexPathsDict(index_paths) ==
  [s \in {Stem(index_paths[k]) : k \in DOMAIN index_paths} |->
     LET last == CHOOSE k \in DOMAIN index_paths :
                   /\ Stem(index_paths[k]) = s
                   /\ \A j \in DOMAIN index_paths : Stem(index_paths[j]) = s => j <= k
     IN index_paths[last]]

Step(tag, path, entry, checked) ==
  [tag |-> tag, path |-> path, entry |-> entry, checked |-> checked]

\* The iteration without the test of the weights path: a missing file
\* surfaces as the exception torch.load raises.
LoopBodyNoPthCheck(pth_path, index_paths_dict) ==
  IF src[pth_path] # "good"
  THEN Step("Exception", NoPath, Entry(NoData, NoData), {})
  ELSE IF Stem(pth_path) \in DOMAIN index_paths_dict
  THEN LET index_path == index_paths_dict[Stem(pth_path)]
       IN IF ~Exists(index_path)
          THEN Step("IndexNotFound", index_path, Entry(NoData, NoData), {index_path})
          ELSE IF src[index_path] = "corrupt"
          THEN Step("Exception", NoPath, Entry(NoData, NoData), {index_path})
          ELSE Step("ok", NoPath, Entry(TorchLoad(pth_path), SerializeIndex(index_path)),
                    {index_path})
  ELSE Step("ok", NoPath, Entry(TorchLoad(pth_path), NoData), {})

\* The iteration pairing the weights with whatever index was supplied,
\* whether or not the stems agree (the positional pairing of the
\* single-model writers).
LoopBodyAnyIndex(pth_path, index_paths_dict) ==
  IF ~Exists(pth_path)
  THEN Step("PthNotFound", pth_path, Entry(NoData, NoData), {pth_path})
  ELSE IF src[pth_path] = "corrupt"
  THEN Step("Exception", NoPath, Entry(NoData, NoData), {pth_path})
  ELSE IF DOMAIN index_paths_dict # {}
  THEN LET index_path == index_paths_dict[CHOOSE s \in DOMAIN index_paths_dict : TRUE]
       IN IF ~Exists(index_path)
          THEN Step("IndexNotFound", index_path, Entry(NoData, NoData), {pth_path, index_path})
          ELSE IF src[index_path] = "corrupt"
          THEN Step("Exception", NoPath, Entry(NoData, NoData), {pth_path, index_path})
          ELSE Step("ok", NoPath, Entry(TorchLoad(pth_path), SerializeIndex(index_path)),
                    {pth_path, index_path})
  ELSE Step("ok", NoPath, Entry(TorchLoad(pth_path), NoData), {pth_path})

\* One iteration of the loop over pth_paths: the outcome, the entry built and
\* the paths whose existence was tested.
LoopBody(pth_path, index_paths_dict) ==
  IF ~Exists(pth_path)
  THEN Step("PthNotFound", pth_path, Entry(NoData, NoData), {pth_path})
  ELSE IF src[pth_path] = "corrupt"
  THEN Step("Exception", NoPath, Entry(NoData, NoData), {pth_path})
  ELSE IF Stem(pth_path) \in DOMAIN index_paths_dict
  THEN LET index_path == index_paths_dict[Stem(pth_path)]
       IN IF ~Exists(index_path)
          THEN Step("IndexNotFound", index_path, Entry(NoData, NoData), {pth_path, index_path})
          ELSE IF src[index_path] = "corrupt"
          THEN Step("Exception", NoPath, Entry(NoData, NoData), {pth_path, index_path})
          ELSE Step("ok", NoPath, Entry(TorchLoad(pth_path), SerializeIndex(index_path)),
                    {pth_path, index_path})
  ELSE Step("ok", NoPath, Entry(TorchLoad(pth_path), NoData), {pth_path})

\* for i, pth_path in enumerate(pth_paths): models_data[i] = model_entry,
\* left at the first return or exception.
RECURSIVE BuildModels(_, _, _, _, _)
BuildModels(pth_paths, index_paths_dict, i, models_data, checked) ==
  IF i > Len(pth_paths)
  THEN [tag |-> "ok", path |-> NoPath, models_data |-> models_data, checked |-> checked]
  ELSE LET step == LoopBody(pth_paths[i], index_paths_dict)
       IN IF step.tag = "ok"
          THEN BuildModels(pth_paths, index_paths_dict, i + 1,
                           Append(models_data, step.entry), checked \cup step.checked)
          ELSE [tag |-> step.tag, path |-> step.path, models_data |-> models_data,
                checked |-> checked \cup step.checked]

\* f"{base_name}_multi.uvcp" if len(pth_paths) > 1 else f"{base_name}.uvcp"
DefaultMultiPath(pth_paths) ==
  [dir |-> LogsDir, stem |-> Stem(pth_paths[1]),
   ext |-> IF Len(pth_paths) > 1 THEN "_multi.uvcp" ELSE "uvcp"]

\* return <message>: the call is over.
Return(p, r) ==
  /\ pc' = [pc EXCEPT ![p] = "done"]
  /\ result' = [result EXCEPT ![p] = r]

\* The call goes on to open final_output_path for writing.
GoWrite(p, data, path) ==
  /\ pc' = [pc EXCEPT ![p] = "open"]
  /\ uvcp_data' = [uvcp_data EXCEPT ![p] = data]
  /\ final_output_path' = [final_output_path EXCEPT ![p] = path]
  /\ UNCHANGED result

\* create_uvcp(pth_paths, index_paths, output_path) up to the open of the
\* output file.
create_uvcp(p, pth_paths, index_paths, output_path) ==
  LET built == BuildModels(pth_paths, IndexPathsDict(index_paths), 1, <<>>, {})
  IN /\ probed' = probed \cup built.checked
     /\ IF built.tag # "ok"
        THEN /\ Return(p, Result(built.tag, built.path, 0))
             /\ UNCHANGED <<dirs, uvcp_data, final_output_path>>
        ELSE IF output_path # NoPath
        THEN /\ dirs' = dirs \cup {Parent(output_path)}
             /\ GoWrite(p, Multi(built.models_data), output_path)
        ELSE IF pth_paths = <<>>
        THEN /\ dirs' = dirs \cup {LogsDir}
             /\ Return(p, Result("Exception", NoPath, 0))
             /\ UNCHANGED <<uvcp_data, final_output_path>>
        ELSE /\ dirs' = dirs \cup {LogsDir}
             /\ GoWrite(p, Multi(built.models_data), DefaultMultiPath(pth_paths))
     /\ UNCHANGED <<src, disk, disk0, pos, loaded>>

Args(entry, alg, pth_paths, index_paths, output_path) ==
  [entry |-> entry, alg |-> alg, pth_paths |-> pth_paths, index_paths |-> index_paths,
   output_path |-> output_path]

\* A caller invokes create_uvcp of uvcp.py directly.
CallCreateUvcp(p, pth_paths, index_paths, output_path) ==
  /\ pc[p] = "idle"
  /\ args' = [args EXCEPT ![p] = Args("create_uvcp", "zstd", pth_paths, index_paths, output_path)]
  /\ create_uvcp(p, pth_paths, index_paths, output_path)

\* run_create_uvcp_script(pth_files, index_files, output_path) of uvcp.py.
run_create_uvcp_script(p, pth_files, index_files, output_path) ==
  /\ pc[p] = "idle"
  /\ IF pth_files = <<>>
     THEN /\ args' = [args EXCEPT ![p] = Args("script", "zstd", <<>>, index_files, output_path)]
          /\ Return(p, Result("PthRequired", NoPath, 0))
          /\ UNCHANGED <<src, dirs, disk, disk0, uvcp_data, final_output_path, pos, probed, loaded>>
     ELSE /\ args' = [args EXCEPT ![p] =
                        Args("script", "zstd", sorted(pth_files), index_files, output_path)]
          /\ create_uvcp(p, sorted(pth_files), index_files, output_path)

\* ------------------------------------------------ create_uvcp, single-model
\* The checks and loads of the single-model create_uvcp: the outcome, the
\* document's only entry and the paths whose existence was tested.
LoadSingle(pth_path, index_path) ==
  IF ~Exists(pth_path)
  THEN Step("PthNotFound", pth_path, Entry(NoData, NoData), {pth_path})
  ELSE IF src[pth_path] = "corrupt"
  THEN Step("Exception", NoPath, Entry(NoData, NoData), {pth_path})
  ELSE IF index_path # NoPath
  THEN IF ~Exists(index_path)
       THEN Step("IndexNotFound", index_path, Entry(NoData, NoData), {pth_path, index_path})
       ELSE IF src[index_path] = "corrupt"
       THEN Step("Exception", NoPath, Entry(NoData, NoData), {pth_path, index_path})
       ELSE Step("ok", NoPath, Entry(TorchLoad(pth_path), SerializeIndex(index_path)),
                 {pth_path, index_path})
  ELSE Step("ok", NoPath, Entry(TorchLoad(pth_path), NoData), {pth_path})

\* logs_dir / f"{base_name}.uvcp"
DefaultSinglePath(pth_path) == [dir |-> LogsDir, stem |-> Stem(pth_path), ext |-> "uvcp"]

OptSeq(x) == IF x = NoPath THEN <<>> ELSE <<x>>

\* run_create_uvcp_script and create_uvcp of a single-model writer, up to
\* the open of the output file; alg is the writer's compression.
PackSingle(p, alg, pth_file, index_file, output_path) ==
  /\ pc[p] = "idle"
  /\ args' = [args EXCEPT ![p] =
                Args("script", alg, OptSeq(pth_file), OptSeq(index_file), output_path)]
  /\ IF pth_file = NoPath
     THEN /\ Return(p, Result("PthRequired", NoPath, 0))
          /\ UNCHANGED <<dirs, uvcp_data, final_output_path, probed>>
     ELSE LET step == LoadSingle(pth_file, index_file)
          IN /\ probed' = probed \cup step.checked
             /\ IF step.tag # "ok"
                THEN /\ Return(p, Result(step.tag, step.path, 0))
                     /\ UNCHANGED <<dirs, uvcp_data, final_output_path>>
                ELSE IF output_path # NoPath
                THEN /\ dirs' = dirs \cup {Parent(output_path)}
                     /\ GoWrite(p, Single(step.entry), output_path)
                ELSE /\ dirs' = dirs \cup {LogsDir}
                     /\ GoWrite(p, Single(step.entry), DefaultSinglePath(pth_file))
  /\ UNCHANGED <<src, disk, disk0, pos, loaded>>

\* uvcp-lz4-compression.py
run_create_uvcp_script_lz4(p, pth_file, index_file, output_path) ==
  PackSingle(p, "lz4", pth_file, index_file, output_path)

\* uvcp-gzip-compression.py
run_create_uvcp_script_gzip(p, pth_file, index_file, output_path) ==
  PackSingle(p, "gzip", pth_file, index_file, output_path)

\* ------------------------------------------------------- writing the file
\* The bytes torch.save sends through the compressing stream.
Stream(p) == Serialize(args[p].alg, uvcp_data[p])

\* A write of one cell at offset k (counted from 0) of a file: past the end
\* of the file the gap reads as a hole.
RECURSIVE Holes(_)
Holes(n) == IF n <= 0 THEN <<>> ELSE <<Hole>> \o Holes(n - 1)

WriteAt(bytes, k, cell) ==
  IF k < Len(bytes) THEN [bytes EXCEPT ![k + 1] = cell]
  ELSE bytes \o Holes(k - Len(bytes)) \o <<cell>>

\* <alg>.open(final_output_path, 'wb'): the file is created, or truncated.
OpenArchive(p) ==
  /\ pc[p] = "open"
  /\ disk' = [disk EXCEPT ![final_output_path[p]] = File(<<>>)]
  /\ pos' = [pos EXCEPT ![p] = 0]
  /\ pc' = [pc EXCEPT ![p] = "writing"]
  /\ UNCHANGED <<src, dirs, disk0, args, uvcp_data, final_output_path, result, probed, loaded>>

\* torch.save(uvcp_data, f): the next part of the stream reaches the file.
WriteChunk(p) ==
  /\ pc[p] = "writing"
  /\ pos[p] < Len(Stream(p))
  /\ disk' = [disk EXCEPT ![final_output_path[p]] =
                File(WriteAt(@.bytes, pos[p], Stream(p)[pos[p] + 1]))]
  /\ pos' = [pos EXCEPT ![p] = @ + 1]
  /\ UNCHANGED <<src, dirs, disk0, pc, args, uvcp_data, final_output_path, result, probed, loaded>>

\* torch.save raises part-way (the device is full, the stream fails): the
\* with block closes the file and the except clause returns the message.
WriteError(p) ==
  /\ pc[p] = "writing"
  /\ pos[p] < Len(Stream(p))
  /\ Return(p, Result("Exception", NoPath, 0))
  /\ UNCHANGED <<src, dirs, disk, disk0, args, uvcp_data, final_output_path, pos, probed, loaded>>

\* The with block ends and create_uvcp returns the success message.
ReturnSuccess(p) ==
  /\ pc[p] = "writing"
  /\ pos[p] = Len(Stream(p))
  /\ Return(p, Result("Success", final_output_path[p], Len(args[p].pth_paths)))
  /\ UNCHANGED <<src, dirs, disk, disk0, args, uvcp_data, final_output_path, pos, probed, loaded>>

\* ------------------------------------------------------------------ reader
Loaded(tag, model_state, index) == [tag |-> tag, model_state |-> model_state, index |-> index]

\* The pair load_uvcp_fast returns for a file: (model_state, index), or the
\* error message and None when anything raised.
LoadResult(file) ==
  IF ~file.exists \/ ~Decompressible("lz4", file.bytes)
  THEN Loaded("error", NoData, NoData)
  ELSE IF HasKey(file.bytes, "index_data")
  THEN IF Deserializable(TopLevel(file.bytes, "index_data"))
       THEN Loaded("ok", TopLevel(file.bytes, "model_state"), TopLevel(file.bytes, "index_data"))
       ELSE Loaded("error", NoData, NoData)
  ELSE Loaded("ok", TopLevel(file.bytes, "model_state"), NoData)

NotLoaded == [path |-> NoPath, ret |-> Loaded("none", NoData, NoData)]

\* load_uvcp_fast(uvcp_path), called between the caller's other calls.
load_uvcp_fast(p, uvcp_path) ==
  /\ pc[p] \in {"idle", "done"}
  /\ loaded' = [loaded EXCEPT ![p] = [path |-> uvcp_path, ret |-> LoadResult(disk[uvcp_path])]]
  /\ UNCHANGED <<src, dirs, disk, disk0, pc, args, uvcp_data, final_output_path, pos,
                 result, probed>>

\* ------------------------------------------------------------ the program
\* The source files: good in the upload directories, absent under "gone",
\* unreadable under "junk".
World ==
  [f \in SrcPaths |-> IF f.dir = "gone" THEN "absent"
                      ELSE IF f.dir = "junk" THEN "corrupt" ELSE "good"]

EmptyDisk == [d \in DestPaths |-> Absent]

NoArgs == Args("none", "zstd", <<>>, <<>>, NoPath)

Init ==
  /\ src = World
  /\ disk \in {EmptyDisk, [EmptyDisk EXCEPT ![OutPath] = File(ForeignArchive)]}
  /\ disk0 = disk
  /\ dirs = DirsOf(disk)
  /\ pc = [p \in Procs |-> "idle"]
  /\ args = [p \in Procs |-> NoArgs]
  /\ uvcp_data = [p \in Procs |-> Multi(<<>>)]
  /\ final_output_path = [p \in Procs |-> NoPath]
  /\ pos = [p \in Procs |-> 0]
  /\ result = [p \in Procs |-> NoResult]
  /\ probed = {}
  /\ loaded = [p \in Procs |-> NotLoaded]

PthLists == SeqsUpTo(PthPaths, MaxModels)
IndexLists == SeqsUpTo(IndexPaths, MaxIndexes)
Outputs == {NoPath, OutPath}

\* The requests a caller can make of each entry point.
PackMulti(p) ==
  /\ pc[p] = "idle"
  /\ \E pth \in PthLists, idx \in IndexLists, out \in Outputs :
       run_create_uvcp_script(p, pth, idx, out)

PackMultiDirect(p) ==
  /\ pc[p] = "idle"
  /\ \E pth \in PthLists, idx \in IndexLists, out \in Outputs :
       CallCreateUvcp(p, pth, idx, out)

PackLz4(p) ==
  /\ pc[p] = "idle"
  /\ \E pth \in PthPaths \cup {NoPath}, idx \in IndexPaths \cup {NoPath}, out \in Outputs :
       run_create_uvcp_script_lz4(p, pth, idx, out)

PackGzip(p) ==
  /\ pc[p] = "idle"
  /\ \E pth \in PthPaths \cup {NoPath}, idx \in IndexPaths \cup {NoPath}, out \in Outputs :
       run_create_uvcp_script_gzip(p, pth, idx, out)

Load(p) ==
  /\ pc[p] \in {"idle", "done"}
  /\ \E d \in {f \in DestPaths : disk[f].exists} : load_uvcp_fast(p, d)

\* Two callers whose packs share the destination: a request of the form.
GoodPth == {f \in PthPaths : f.dir = "up1"}

PackShared(p) ==
  /\ pc[p] = "idle"
  /\ \E pth \in SeqsUpTo(GoodPth, MaxModels) \ {<<>>} :
       run_create_uvcp_script(p, pth, <<>>, OutPath)

\* One caller packs through the multi-model writer; the write succeeds.
Next ==
  \/ PackMulti(1)
  \/ PackMultiDirect(1)
  \/ OpenArchive(1)
  \/ WriteChunk(1)
  \/ ReturnSuccess(1)

Spec == Init /\ [][Next]_vars

\* One caller packs through any of the three writers, the write may fail
\* part-way, and the caller loads archives.
NextIO ==
  \/ PackMulti(1)
  \/ PackMultiDirect(1)
  \/ PackLz4(1)
  \/ PackGzip(1)
  \/ OpenArchive(1)
  \/ WriteChunk(1)
  \/ WriteError(1)
  \/ ReturnSuccess(1)
  \/ Load(1)

SpecIO == Init /\ [][NextIO]_vars

\* Two callers (two requests of the form served at once) pack to one path.
NextConc ==
  \E p \in Procs :
    \/ PackShared(p)
    \/ OpenArchive(p)
    \/ WriteChunk(p)
    \/ ReturnSuccess(p)

SpecConc == Init /\ [][NextConc]_vars

\* ================================================================== claims
\* What the claims speak of, for a caller p whose multi-model pack returned.
Packed(p) == pc[p] = "done" /\ args[p].entry # "none" /\ args[p].alg = "zstd"
Succeeded(p) == pc[p] = "done" /\ result[p].tag = "Success"

Matches(index_path, pth_path) == Stem(index_path) = Stem(pth_path)

DistinctStems(paths) ==
  \A i, j \in DOMAIN paths : i # j => Stem(paths[i]) # Stem(paths[j])

\* The position of the last index source with the stem of pth_path.
LastWith(index_paths, pth_path) ==
  CHOOSE k \in DOMAIN index_paths :
    /\ Matches(index_paths[k], pth_path)
    /\ \A j \in DOMAIN index_paths : Matches(index_paths[j], pth_path) => j <= k

\* Nothing was created or written at the destination.
NothingWritten == disk = disk0 /\ dirs = DirsOf(disk0)

\* C1: for weights sources with distinct stems, a successful multi-model pack
\* gives the ids 0, 1, 2, ... in ascending order of the sources' stems,
\* whatever the input order and the directories of the paths.
C1_IdsInStemOrder ==
  \A p \in Procs :
    (Packed(p) /\ Succeeded(p) /\ DistinctStems(args[p].pth_paths)) =>
      \A i, j \in DOMAIN uvcp_data[p].entries :
        i < j => Rank(StemOrder, Stem(uvcp_data[p].entries[i].model_state))
                   < Rank(StemOrder, Stem(uvcp_data[p].entries[j].model_state))

\* C2: loading the archive a successful multi-model pack of N >= 1 sources
\* wrote succeeds and yields a container of exactly N entries, ids 0..N-1,
\* each with its source's weights, and with index data exactly for the
\* sources that had a matching index.
C2_RoundTrip ==
  \A p \in Procs :
    (/\ Packed(p) /\ Succeeded(p)
     /\ args[p].pth_paths # <<>>
     /\ ~disk0[final_output_path[p]].exists
     /\ loaded[p].path = final_output_path[p]) =>
      LET c == Decode(disk[loaded[p].path].bytes)
          n == Len(args[p].pth_paths)
      IN /\ loaded[p].ret.tag = "ok"
         /\ c.form = "multi"
         /\ Len(c.entries) = n
         /\ \A i \in 1..n :
              /\ c.entries[i].model_state = TorchLoad(args[p].pth_paths[i])
              /\ (c.entries[i].index_data # NoData) <=>
                   (\E k \in DOMAIN args[p].index_paths :
                      Matches(args[p].index_paths[k], args[p].pth_paths[i]))

\* C3: when a pack has returned a failure, every destination path is as it
\* was before the pack or holds a complete archive.
C3_NoPartialOnFailure ==
  \A p \in Procs :
    (pc[p] = "done" /\ result[p].tag # "Success") =>
      \A d \in DestPaths :
        disk[d] = disk0[d] \/ (disk[d].exists /\ IsCompleteArchive(disk[d].bytes))

\* C4 as stated: whichever position k holds a weights source that does not
\* exist, the pack returns the not-found error naming that path, and nothing
\* was created or written.
C4_EveryMissingNamed ==
  \A p \in Procs :
    Packed(p) =>
      \A k \in DOMAIN args[p].pth_paths :
        ~Exists(args[p].pth_paths[k]) =>
          /\ result[p] = Result("PthNotFound", args[p].pth_paths[k], 0)
          /\ NothingWritten

\* The first position, in the order the pack processes them, that holds a
\* weights source that does not exist (0: none).
FirstMissing(pth_paths) ==
  IF \E k \in DOMAIN pth_paths : ~Exists(pth_paths[k])
  THEN CHOOSE k \in DOMAIN pth_paths :
         ~Exists(pth_paths[k]) /\ \A j \in 1..(k - 1) : Exists(pth_paths[j])
  ELSE 0

\* The entry before position k is built without an error: its weights load
\* and the index the pack pairs it with, if any, exists and loads.
Loads(pth_paths, index_paths, j) ==
  /\ src[pth_paths[j]] = "good"
  /\ (\E k \in DOMAIN index_paths : Matches(index_paths[k], pth_paths[j])) =>
       src[index_paths[LastWith(index_paths, pth_paths[j])]] = "good"

\* C4 amended: when some weights source does not exist the pack does not
\* succeed and nothing was created or written; and when every entry before
\* the first missing source (in processing order) is built without an
\* error, the pack returns the not-found error naming that first one.
C4_FirstMissingNamed ==
  \A p \in Procs :
    (Packed(p) /\ FirstMissing(args[p].pth_paths) # 0) =>
      LET k == FirstMissing(args[p].pth_paths)
      IN /\ result[p].tag # "Success"
         /\ NothingWritten
         /\ (\A j \in 1..(k - 1) : Loads(args[p].pth_paths, args[p].index_paths, j)) =>
              result[p] = Result("PthNotFound", args[p].pth_paths[k], 0)

\* C4 witness: both sources of a pack to a path in a directory that does not
\* exist are missing; the pack returned naming the first one and created
\* neither the file nor the directory.
C4_Witness ==
  /\ Packed(1)
  /\ Len(args[1].pth_paths) = 2
  /\ ~Exists(args[1].pth_paths[1]) /\ ~Exists(args[1].pth_paths[2])
  /\ args[1].pth_paths[1] # args[1].pth_paths[2]
  /\ args[1].output_path = OutPath
  /\ result[1] = Result("PthNotFound", args[1].pth_paths[1], 0)
  /\ ~disk[OutPath].exists /\ dirs = {}

\* A pack has opened its output file; cell i of a file is a cell of p's stream.
Writing(p) == pc[p] \in {"writing", "done"} /\ result[p].tag \in {"none", "Success"}
From(p, bytes, i) == i <= Len(Stream(p)) /\ bytes[i] = Stream(p)[i]

\* The file holds a cell only the first pack wrote and one only the second did.
Mixed(bytes) ==
  /\ \E i \in DOMAIN bytes : From(1, bytes, i) /\ ~From(2, bytes, i)
  /\ \E j \in DOMAIN bytes : From(2, bytes, j) /\ ~From(1, bytes, j)

\* C5: packs that target one path never leave parts of both archives in the
\* file, and once both have succeeded the file is the archive of one of them.
C5_NoInterleave ==
  (Writing(1) /\ Writing(2) /\ final_output_path[1] = final_output_path[2]) =>
    LET bytes == disk[final_output_path[1]].bytes
    IN /\ ~Mixed(bytes)
       /\ (Succeeded(1) /\ Succeeded(2)) => bytes \in {Stream(1), Stream(2)}

\* C6: a pack called with no weights source returns the missing-input error
\* and nothing was created or written.
C6_EmptyRejected ==
  \A p \in Procs :
    (Packed(p) /\ args[p].pth_paths = <<>>) =>
      result[p].tag = "PthRequired" /\ NothingWritten

\* C7: after a successful multi-model pack every entry has index data
\* exactly when some supplied index source has the stem of the entry's
\* weights source; and a pack whose weights sources load, and whose index
\* sources that match a weights source load, succeeds whatever the index
\* sources that match none are.
C7_IndexIffMatch ==
  \A p \in Procs :
    Packed(p) =>
      /\ Succeeded(p) =>
           \A i \in DOMAIN uvcp_data[p].entries :
             (uvcp_data[p].entries[i].index_data # NoData) <=>
               (\E k \in DOMAIN args[p].index_paths :
                  Matches(args[p].index_paths[k], args[p].pth_paths[i]))
      /\ (/\ args[p].pth_paths # <<>>
          /\ \A i \in DOMAIN args[p].pth_paths : src[args[p].pth_paths[i]] = "good"
          /\ \A k \in DOMAIN args[p].index_paths :
               (\E i \in DOMAIN args[p].pth_paths :
                  Matches(args[p].index_paths[k], args[p].pth_paths[i]))
                 => src[args[p].index_paths[k]] = "good") =>
           Succeeded(p)

\* C7 witness: a successful pack of two sources and one index source, whose
\* stem is the first source's: the first entry has index data, the second
\* has none.
C7_Witness ==
  /\ Packed(1) /\ Succeeded(1)
  /\ Len(uvcp_data[1].entries) = 2
  /\ Len(args[1].index_paths) = 1
  /\ Matches(args[1].index_paths[1], args[1].pth_paths[1])
  /\ ~Matches(args[1].index_paths[1], args[1].pth_paths[2])
  /\ uvcp_data[1].entries[1].index_data = SerializeIndex(args[1].index_paths[1])
  /\ uvcp_data[1].entries[2].index_data = NoData

\* An index source is shadowed: a different path of its stem comes last.
Shadowed(index_paths, k) ==
  \E j \in DOMAIN index_paths :
    j > k /\ Stem(index_paths[j]) = Stem(index_paths[k])
          /\ index_paths[k] # index_paths[LastWith(index_paths, index_paths[k])]

\* C10: in a multi-model pack the index data of an entry is that of the last
\* supplied index source with the entry's stem; the existence of a shadowed
\* index source is never tested; and a pack whose weights sources load, and
\* whose last index source of each matched stem loads, succeeds.
C10_LastWins ==
  \A p \in Procs :
    Packed(p) =>
      /\ Succeeded(p) =>
           \A i \in DOMAIN uvcp_data[p].entries :
             uvcp_data[p].entries[i].index_data # NoData =>
               uvcp_data[p].entries[i].index_data =
                 SerializeIndex(args[p].index_paths[
                   LastWith(args[p].index_paths, args[p].pth_paths[i])])
      /\ \A k \in DOMAIN args[p].index_paths :
           Shadowed(args[p].index_paths, k) => args[p].index_paths[k] \notin probed
      /\ (/\ args[p].pth_paths # <<>>
          /\ \A i \in DOMAIN args[p].pth_paths :
               /\ src[args[p].pth_paths[i]] = "good"
               /\ (\E k \in DOMAIN args[p].index_paths :
                     Matches(args[p].index_paths[k], args[p].pth_paths[i])) =>
                    src[args[p].index_paths[
                      LastWith(args[p].index_paths, args[p].pth_paths[i])]] = "good") =>
           Succeeded(p)

\* C10 witness: two index sources of one stem, the first of which does not
\* exist, and a successful pack whose entry holds the second one's data.
C10_Witness ==
  /\ Packed(1) /\ Succeeded(1)
  /\ Len(args[1].index_paths) = 2
  /\ Shadowed(args[1].index_paths, 1)
  /\ ~Exists(args[1].index_paths[1])
  /\ Len(uvcp_data[1].entries) = 1
  /\ uvcp_data[1].entries[1].index_data = SerializeIndex(args[1].index_paths[2])

\* C8: a load of an archive whose index buffer is present and cannot be
\* deserialized still returns the archive's weights.
C8_WeightsSurviveBadIndex ==
  \A p \in Procs :
    (/\ loaded[p].path # NoPath
     /\ disk[loaded[p].path] = disk0[loaded[p].path]
     /\ Decompressible("lz4", disk[loaded[p].path].bytes)
     /\ HasKey(disk[loaded[p].path].bytes, "index_data")
     /\ ~Deserializable(TopLevel(disk[loaded[p].path].bytes, "index_data"))) =>
      loaded[p].ret.model_state = TopLevel(disk[loaded[p].path].bytes, "model_state")

\* C9: a load of the archive any of the three writers wrote succeeds and
\* returns the weights: of the only model for a single-form archive, some
\* weights for a multi-form archive of at least one model.
C9_ReaderHandlesEveryWriter ==
  \A p \in Procs :
    (/\ Succeeded(p)
     /\ args[p].pth_paths # <<>>
     /\ ~disk0[final_output_path[p]].exists
     /\ loaded[p].path = final_output_path[p]) =>
      /\ loaded[p].ret.tag = "ok"
      /\ uvcp_data[p].form = "single" =>
           loaded[p].ret.model_state = TorchLoad(args[p].pth_paths[1])
      /\ uvcp_data[p].form = "multi" => loaded[p].ret.model_state # NoData

====
